---- MODULE Spec2Model ----
(***************************************************************************)
(* forkcordion: the AppleSingle container decoder.                         *)
(*                                                                         *)
(* The model follows src/src/applesingle.rs (header reader, segment        *)
(* dispatcher, streaming and seekable traversal), src/src/io.rs            *)
(* (CountingReader), src/src/lib.rs (Entry), src/src/archive.rs (builders, *)
(* SeekableArchive) and src/src/finder.rs (FinderInfo, FinderFlags).       *)
(*                                                                         *)
(* A byte source is a sequence of bytes; the byte at absolute position p   *)
(* (0-based, as in the container's offsets) is source[p + 1].              *)
(* Option<T> is a sequence: <<>> is None, <<v>> is Some(v).                *)
(***************************************************************************)
EXTENDS Integers, Sequences, FiniteSets, TLC

VARIABLES
    source,      \* the container bytes handed to parse and parse_seekable
    engine,      \* "streaming" (parse), "seekable" (parse_seekable), "archive"
    pc,          \* "open" | "loop" | "build" inside an engine; "use" | "closed" after
    pos,         \* CountingReader.count (streaming) / the source's seek position
    header,      \* ArchiveHeader.segments: BTreeMap<u32, Segment> as a function
    segments,    \* the Vec<Segment> returned by segments_by_offset()
    builder,     \* ArchiveBuilder / SeekableArchiveBuilder fields
    visited,     \* one record per loop iteration started (history)
    asked,       \* one record per Handler::sink call (history, with bytes written)
    stream_out,  \* what parse returned
    seek_out,    \* what parse_seekable returned
    fork_reader, \* the outstanding reader returned by data_fork()/rsrc_fork()
    requests,    \* number of data_fork()/rsrc_fork() calls made
    flags_word,  \* a 16-bit Finder flags word
    flags,       \* Option of the decoded accessors of flags_word
    date_bytes,  \* the 16 bytes of a file-dates block
    dates,       \* Option of the Dates decoded from date_bytes, with Unix times
    calls,       \* the ArchiveBuilder setter calls made so far (history)
    build_out,   \* Option of what the last ArchiveBuilder::build() returned
    first_run    \* Option of the outcome of an earlier parse of the same source

\* what the parsing engines never touch
side_vars == <<date_bytes, dates, calls, build_out, first_run>>

vars == <<source, engine, pc, pos, header, segments, builder, visited, asked,
          stream_out, seek_out, fork_reader, requests, flags_word, flags,
          side_vars>>

parse_vars == <<source, engine, pc, pos, header, segments, builder, visited,
                asked, stream_out, seek_out, fork_reader, requests>>

----------------------------------------------------------------------------
(* Bounds of the model *)

\* largest number of descriptors in a generated segment table
MaxSegs == 2
\* bytes the intact source holds past the end of the furthest segment
MaxSlack == 4
\* largest number of data_fork()/rsrc_fork() requests on one SeekableArchive
MaxRequests == 2

\* setter calls made on one ArchiveBuilder
MaxCalls == 3

----------------------------------------------------------------------------
(* Program constants *)

HEADER_LEN == 26
SEGMENT_LEN == 12
FINDER_INFO_LEN == 16
FILE_DATES_LEN == 16
MAC_INFO_LEN == 4

MAGIC == <<0, 5, 22, 0>>
VERSION == <<0, 2, 0, 0>>
FORMAT_NAME == "AppleSingle"

None == <<>>
Some(v) == <<v>>

Min(a, b) == IF a < b THEN a ELSE b

----------------------------------------------------------------------------
(* Big-endian integers *)

U16BE(b) == b[1] * 256 + b[2]
U32BE(b) == ((b[1] * 256 + b[2]) * 256 + b[3]) * 256 + b[4]
I16BE(b) == IF U16BE(b) >= 32768 THEN U16BE(b) - 65536 ELSE U16BE(b)
I32BE(b) ==
    (((IF b[1] >= 128 THEN b[1] - 256 ELSE b[1]) * 256 + b[2]) * 256 + b[3]) * 256
    + b[4]

BytesU16(v) == <<(v \div 256) % 256, v % 256>>
BytesU32(v) == <<(v \div 16777216) % 256, (v \div 65536) % 256,
                 (v \div 256) % 256, v % 256>>

\* the bytes of src at absolute positions [from, from + n)
Slice(src, from, n) == SubSeq(src, from + 1, from + n)

\* bytes a reader positioned at p can still get from src
Remaining(src, p) == IF p >= Len(src) THEN 0 ELSE Len(src) - p

----------------------------------------------------------------------------
(* io::Read primitives over a byte source *)

\* Read::read_exact of n bytes at position p through a Take with `limit` bytes
\* left: fails with UnexpectedEof when fewer than n bytes can be had, after
\* having consumed those that were there.
ReadExactUnbounded(src, p, limit, n) ==
    LET avail == Remaining(src, p) IN
    IF avail < n
    THEN [ok |-> FALSE, kind |-> "UnexpectedEof", bytes |-> <<>>, pos |-> p + avail]
    ELSE [ok |-> TRUE, kind |-> "", bytes |-> Slice(src, p, n), pos |-> p + n]

ReadExact(src, p, limit, n) ==
    LET avail == Min(limit, Remaining(src, p)) IN
    IF avail < n
    THEN [ok |-> FALSE, kind |-> "UnexpectedEof", bytes |-> <<>>, pos |-> p + avail]
    ELSE [ok |-> TRUE, kind |-> "", bytes |-> Slice(src, p, n), pos |-> p + n]

\* Read::read_to_end (and io::copy) through a Take with `limit` bytes left:
\* reads until the Take or the source is exhausted; a short source is no error.
ReadToEnd(src, p, limit) ==
    LET avail == Min(limit, Remaining(src, p)) IN
    [bytes |-> Slice(src, p, avail), pos |-> p + avail]

\* CountingReader::skip_to
skip_to_unchecked(src, count, offset) ==
    IF offset - count < 1
    THEN [ok |-> TRUE, kind |-> "", pos |-> count]
    ELSE [ok |-> TRUE, kind |-> "",
          pos |-> ReadToEnd(src, count, offset - count).pos]

skip_to(src, count, offset) ==
    IF count > offset
    THEN [ok |-> FALSE, kind |-> "Unsupported", pos |-> count]
    ELSE IF offset - count < 1
    THEN [ok |-> TRUE, kind |-> "", pos |-> count]
    ELSE [ok |-> TRUE, kind |-> "",
          pos |-> ReadToEnd(src, count, offset - count).pos]

\* Entry::limit: a reader over the next entry.len bytes of a stream at p
limit_unbounded(src, p, entry) == ReadToEnd(src, p, Remaining(src, p))

limit(src, p, entry) == ReadToEnd(src, p, entry.len)

\* Entry::fixate: seek to entry.offset, then bound the reader to entry.len
fixate_seek_len(entry) == [pos |-> entry.len, limit |-> entry.len]

fixate(entry) == [pos |-> entry.offset, limit |-> entry.len]

----------------------------------------------------------------------------
(* Segment descriptors and the segment table *)

\* Segment::from_bytes: id, offset, len, big-endian
SegmentFromBytes(b) ==
    [id |-> U32BE(SubSeq(b, 1, 4)),
     offset |-> U32BE(SubSeq(b, 5, 8)),
     len |-> U32BE(SubSeq(b, 9, 12))]

\* enum EntryType with TryFromPrimitive: None for an id outside the enum
EntryType(id) ==
    CASE id = 1 -> Some("DataFork")
      [] id = 2 -> Some("ResourceFork")
      [] id = 3 -> Some("RealName")
      [] id = 4 -> Some("Comment")
      [] id = 5 -> Some("IconBW")
      [] id = 6 -> Some("IconColor")
      [] id = 8 -> Some("FileDates")
      [] id = 9 -> Some("FinderInfo")
      [] id = 10 -> Some("MacintoshFileInfo")
      [] id = 11 -> Some("ProDOSFileInfo")
      [] id = 12 -> Some("MSDOSFileInfo")
      [] id = 13 -> Some("AFPShortName")
      [] id = 14 -> Some("AFPFileInfo")
      [] id = 15 -> Some("AFPDirectoryID")
      [] OTHER -> None

\* BTreeMap::insert(segment.id, segment): a later descriptor replaces an
\* earlier one with the same id
InsertKeepFirst(table, segment) ==
    IF segment.id \in DOMAIN table
    THEN table
    ELSE [i \in DOMAIN table \cup {segment.id} |->
            IF i = segment.id THEN segment ELSE table[i]]

Insert(table, segment) ==
    [i \in DOMAIN table \cup {segment.id} |->
        IF i = segment.id THEN segment ELSE table[i]]

EmptyTable == [i \in {} |-> 0]

\* the check of the 8 magic bytes of AppleSingleHeader (magic and version)
MagicMatchesIgnoringVersion(b) == SubSeq(b, 1, 4) = MAGIC

MagicMatches(b) == SubSeq(b, 1, 4) = MAGIC /\ SubSeq(b, 5, 8) = VERSION

\* the loop of read_header over read_segment: k descriptors still to read
RECURSIVE ReadSegments(_, _, _, _)
ReadSegments(src, p, k, table) ==
    IF k = 0
    THEN [ok |-> TRUE, kind |-> "", pos |-> p, table |-> table]
    ELSE LET r == ReadExact(src, p, Remaining(src, p), SEGMENT_LEN) IN
         IF ~r.ok
         THEN [ok |-> FALSE, kind |-> r.kind, pos |-> r.pos, table |-> table]
         ELSE ReadSegments(src, r.pos, k - 1,
                           Insert(table, SegmentFromBytes(r.bytes)))

\* AppleSingleArchiveReader::read_header on a source at position 0
read_header(src) ==
    LET r == ReadExact(src, 0, Remaining(src, 0), HEADER_LEN) IN
    IF ~r.ok
    THEN [ok |-> FALSE, kind |-> r.kind, pos |-> r.pos, table |-> EmptyTable]
    ELSE IF ~MagicMatches(r.bytes)
    THEN [ok |-> FALSE, kind |-> "InvalidData", pos |-> r.pos, table |-> EmptyTable]
    ELSE ReadSegments(src, r.pos, U16BE(SubSeq(r.bytes, 25, 26)), EmptyTable)

\* BTreeMap::values(): the descriptors in ascending id order
RECURSIVE Values(_)
Values(table) ==
    IF DOMAIN table = {}
    THEN <<>>
    ELSE LET m == CHOOSE i \in DOMAIN table : \A j \in DOMAIN table : i <= j IN
         <<table[m]>> \o Values([i \in DOMAIN table \ {m} |-> table[i]])

\* one step of a stable sort by offset: s goes after every element whose
\* offset is not larger
RECURSIVE InsertByOffset(_, _)
InsertByOffset(sorted, s) ==
    IF sorted = <<>> THEN <<s>>
    ELSE IF s.offset < Head(sorted).offset THEN <<s>> \o sorted
    ELSE <<Head(sorted)>> \o InsertByOffset(Tail(sorted), s)

RECURSIVE SortByOffset(_)
SortByOffset(v) ==
    IF v = <<>> THEN <<>>
    ELSE InsertByOffset(SortByOffset(SubSeq(v, 1, Len(v) - 1)), v[Len(v)])

\* ArchiveHeader::segments_by_offset
UnsortedSegments(table) == Values(table)

segments_by_offset(table) == SortByOffset(Values(table))

----------------------------------------------------------------------------
(* Metadata codecs *)

\* FinderFlags accessors: bit i of the word in Lsb0 order (bit 0 is the least
\* significant bit of the u16)
BitMsb0(w, i) == (w \div (2 ^ (15 - i))) % 2 = 1

Bit(w, i) == (w \div (2 ^ i)) % 2 = 1

\* FinderFlags::color: bits 1..4 of the word, bit 1 the least significant
ColorMsb0(w) == (w \div 4096) % 8

color(w) == (w \div 2) % 8

\* every accessor of FinderFlags applied to the word w
FinderFlagsOf(w) ==
    [is_on_desktop |-> Bit(w, 0),
     color |-> color(w),
     color_reserved |-> Bit(w, 4),
     requires_switch_launch |-> Bit(w, 5),
     is_shared |-> Bit(w, 6),
     has_no_inits |-> Bit(w, 7),
     has_been_inited |-> Bit(w, 8),
     has_custom_icon |-> Bit(w, 10),
     is_stationery |-> Bit(w, 11),
     name_locked |-> Bit(w, 12),
     has_bundle |-> Bit(w, 13),
     is_invisible |-> Bit(w, 14),
     is_alias |-> Bit(w, 15)]

\* From<&[u8; 16]> for FinderInfo
FinderInfoFrom(b) ==
    [file_type |-> SubSeq(b, 1, 4),
     creator |-> SubSeq(b, 5, 8),
     flags |-> U16BE(SubSeq(b, 9, 10)),
     location |-> [vertical |-> I16BE(SubSeq(b, 11, 12)),
                   horizontal |-> I16BE(SubSeq(b, 13, 14))],
     folder |-> U16BE(SubSeq(b, 15, 16))]

\* From<&[u8; 16]> for Dates
DatesFrom(b) ==
    [create |-> I32BE(SubSeq(b, 1, 4)),
     modify |-> I32BE(SubSeq(b, 5, 8)),
     backup |-> I32BE(SubSeq(b, 9, 12)),
     access |-> I32BE(SubSeq(b, 13, 16))]

\* From<&[u8; 4]> for MacInfo
MacInfoFrom(b) == U32BE(b)

\* UNIX timestamp for 2000-01-01T00:00:00Z
MAC_EPOCH == 946684800

\* An i64 is held as its four 16-bit limbs, least significant first, in two's
\* complement. `v as i64` of an i32: sign extension.
AsI64(v) ==
    LET ext == IF v < 0 THEN 65535 ELSE 0 IN
    <<v % 65536, (v \div 65536) % 65536, ext, ext>>

\* the carry into limb k of a + b
RECURSIVE Carry64(_, _, _)
Carry64(a, b, k) ==
    IF k = 1 THEN 0 ELSE (a[k - 1] + b[k - 1] + Carry64(a, b, k - 1)) \div 65536

\* i64 addition modulo 2^64
WrappingAdd64(a, b) == [k \in 1..4 |-> (a[k] + b[k] + Carry64(a, b, k)) % 65536]

Negative64(a) == a[4] >= 32768

\* the i64 addition leaves the range of i64
Overflows64(a, b) ==
    /\ Negative64(a) = Negative64(b)
    /\ Negative64(WrappingAdd64(a, b)) # Negative64(a)

\* Date::as_unix_timestamp
as_unix_timestamp_i32(v) ==
    LET sum == WrappingAdd64(AsI64(v), AsI64(MAC_EPOCH))
        ext == IF sum[2] >= 32768 THEN 65535 ELSE 0
    IN  [value |-> <<sum[1], sum[2], ext, ext>>,
         overflow |-> (v >= 0 /\ sum[2] >= 32768)]

as_unix_timestamp(v) ==
    [value |-> WrappingAdd64(AsI64(v), AsI64(MAC_EPOCH)),
     overflow |-> Overflows64(AsI64(v), AsI64(MAC_EPOCH))]

----------------------------------------------------------------------------
(* The segment dispatcher *)

Fail(r) == [ok |-> FALSE, kind |-> r.kind, pos |-> r.pos, member |-> None]

Decoded(tag, value, p) ==
    [ok |-> TRUE, kind |-> "", pos |-> p,
     member |-> Some([tag |-> tag, value |-> value])]

\* Segment::wrap over a reader at position p bounded to segment.len bytes
\* (the io::Take of SegmentReader::from_segment or of Entry::fixate)
wrap(segment, src, p) ==
    LET type == EntryType(segment.id)
        all == ReadToEnd(src, p, segment.len)
        fixed(n) == ReadExact(src, p, segment.len, n)
    IN  CASE type = Some("RealName") -> Decoded("RealName", all.bytes, all.pos)
          [] type = Some("Comment") -> Decoded("Comment", all.bytes, all.pos)
          [] type = Some("FinderInfo") ->
                IF fixed(FINDER_INFO_LEN).ok
                THEN Decoded("FinderInfo",
                             FinderInfoFrom(fixed(FINDER_INFO_LEN).bytes),
                             fixed(FINDER_INFO_LEN).pos)
                ELSE Fail(fixed(FINDER_INFO_LEN))
          [] type = Some("FileDates") ->
                IF fixed(FILE_DATES_LEN).ok
                THEN Decoded("FileDates",
                             DatesFrom(fixed(FILE_DATES_LEN).bytes),
                             fixed(FILE_DATES_LEN).pos)
                ELSE Fail(fixed(FILE_DATES_LEN))
          [] type = Some("MacintoshFileInfo") ->
                IF fixed(MAC_INFO_LEN).ok
                THEN Decoded("MacInfo",
                             MacInfoFrom(fixed(MAC_INFO_LEN).bytes),
                             fixed(MAC_INFO_LEN).pos)
                ELSE Fail(fixed(MAC_INFO_LEN))
          [] type = Some("ResourceFork") -> Decoded("ResourceFork", segment, p)
          [] type = Some("DataFork") -> Decoded("DataFork", segment, p)
          [] OTHER -> Decoded("Other", segment, p)

\* SegmentReader::from_segment followed by SegmentReader::wrap
from_segment_wrap(segment, src, count) ==
    LET s == skip_to(src, count, segment.offset) IN
    IF ~s.ok
    THEN [ok |-> FALSE, kind |-> s.kind, pos |-> s.pos, member |-> None,
          start |-> s.pos]
    ELSE LET w == wrap(segment, src, s.pos) IN
         [ok |-> w.ok, kind |-> w.kind, pos |-> w.pos, member |-> w.member,
          start |-> s.pos]

\* SeekableArchiveBuilder::entry followed by Segment::wrap
entry_wrap(segment, src) ==
    LET w == wrap(segment, src, fixate(segment).pos) IN
    [ok |-> w.ok, kind |-> w.kind, pos |-> w.pos, member |-> w.member,
     start |-> fixate(segment).pos]

IsFork(tag) == tag \in {"DataFork", "ResourceFork", "Other"}

\* the Fork handed to Handler::sink for a fork member
ForkOf(tag, segment) ==
    CASE tag = "ResourceFork" -> [kind |-> "Rsrc", id |-> 0]
      [] tag = "DataFork" -> [kind |-> "Data", id |-> 0]
      [] OTHER -> [kind |-> "Other", id |-> segment.id]

----------------------------------------------------------------------------
(* Archive builders *)

\* ArchiveBuilder::new / SeekableArchiveBuilder::new
NewBuilder ==
    [format |-> None, finf |-> None, minf |-> None, name |-> None,
     date |-> None, comment |-> None, rsrc_fork |-> None, data_fork |-> None]

\* ArchiveBuilder::format, finf, minf, date, name, comment
format_dropped(b, v) == b

format(b, v) == [b EXCEPT !.format = Some(v)]
finf(b, v) == [b EXCEPT !.finf = Some(v)]
minf(b, v) == [b EXCEPT !.minf = Some(v)]
date(b, v) == [b EXCEPT !.date = Some(v)]
name(b, v) == [b EXCEPT !.name = Some(v)]
comment(b, v) == [b EXCEPT !.comment = Some(v)]

\* the setter a decoded member is folded into the builder with
Fold(b, m) ==
    CASE m.tag = "RealName" -> [b EXCEPT !.name = Some(m.value)]
      [] m.tag = "Comment" -> [b EXCEPT !.comment = Some(m.value)]
      [] m.tag = "FinderInfo" -> [b EXCEPT !.finf = Some(m.value)]
      [] m.tag = "MacInfo" -> [b EXCEPT !.minf = Some(m.value)]
      [] m.tag = "FileDates" -> [b EXCEPT !.date = Some(m.value)]
      [] OTHER -> b

\* the fork arms of parse_seekable: the range is recorded, nothing is read
Record(b, m) ==
    CASE m.tag = "ResourceFork" -> [b EXCEPT !.rsrc_fork = Some(m.value)]
      [] m.tag = "DataFork" -> [b EXCEPT !.data_fork = Some(m.value)]
      [] OTHER -> b

\* ArchiveBuilder::build: None without a format
build_unchecked(b) ==
    Some([format |-> IF b.format = None THEN "" ELSE b.format[1],
          finf |-> b.finf, minf |-> b.minf,
          date |-> b.date, name |-> b.name, comment |-> b.comment])

build(b) ==
    IF b.format = None
    THEN None
    ELSE Some([format |-> b.format[1], finf |-> b.finf, minf |-> b.minf,
               date |-> b.date, name |-> b.name, comment |-> b.comment])

\* SeekableArchiveBuilder::build: the built Archive with the recorded forks
seekable_build(b) ==
    IF build(b) = None
    THEN None
    ELSE Some([format |-> build(b)[1].format, finf |-> build(b)[1].finf,
               minf |-> build(b)[1].minf, date |-> build(b)[1].date,
               name |-> build(b)[1].name, comment |-> build(b)[1].comment,
               rsrc_fork |-> b.rsrc_fork, data_fork |-> b.data_fork])

\* the metadata both kinds of archive expose
Metadata(a) ==
    [format |-> a.format, finf |-> a.finf, minf |-> a.minf, date |-> a.date,
     name |-> a.name, comment |-> a.comment]

Pending == [status |-> "pending", kind |-> "", archive |-> None]
Ok(a) == [status |-> "Ok", kind |-> "", archive |-> Some(a)]
Err(k) == [status |-> "Err", kind |-> k, archive |-> None]

----------------------------------------------------------------------------
(* The containers the decoder is run on *)

\* first position past the largest segment table
PayloadBase == HEADER_LEN + SEGMENT_LEN * MaxSegs

\* data fork, resource fork, real name, comment, file dates, Finder info,
\* Mac file info, and an id outside the enumeration
Ids == {1, 2, 3, 4, 8, 9, 10, 7}

\* where a segment lies: inside the header region; the first four payload
\* bytes; sixteen bytes from the same offset (overlapping what follows); and
\* sixteen bytes right after the first four
Ranges ==
    {[offset |-> HEADER_LEN + 2, len |-> 4],
     [offset |-> PayloadBase, len |-> 4],
     [offset |-> PayloadBase, len |-> 16],
     [offset |-> PayloadBase + 4, len |-> 16]}

Descriptors ==
    {[id |-> i, offset |-> r.offset, len |-> r.len] : i \in Ids, r \in Ranges}

RawTables == UNION {[1..n -> Descriptors] : n \in 0..MaxSegs}

\* length of an intact source: every segment fits, with MaxSlack bytes to spare
FullLen == PayloadBase + 4 + 16 + MaxSlack

\* an intact source, and sources cut inside the preamble, two bytes after the
\* first descriptor (inside the second one, or before the payload of a single
\* one), and inside the payload (after the first four payload bytes)
Sizes == {HEADER_LEN - 2, HEADER_LEN + SEGMENT_LEN + 2, PayloadBase + 6, FullLen}

\* the AppleSingle magic and the AppleDouble one
Magics == {MAGIC, <<0, 5, 22, 7>>}

Versions == {VERSION, <<0, 1, 0, 0>>}

RECURSIVE DescriptorBytes(_)
DescriptorBytes(raw) ==
    IF raw = <<>> THEN <<>>
    ELSE BytesU32(Head(raw).id) \o BytesU32(Head(raw).offset)
         \o BytesU32(Head(raw).len) \o DescriptorBytes(Tail(raw))

\* the container with the given preamble and raw descriptor list, cut to
\* `size` bytes; the byte at a payload position p has the value p mod 256
Filler == [p \in 1..FullLen |-> (p - 1) % 256]

Container(magic, version, raw, size) ==
    LET head == magic \o version \o [i \in 1..16 |-> 0]
                \o BytesU16(Len(raw)) \o DescriptorBytes(raw)
    IN  SubSeq(head \o SubSeq(Filler, Len(head) + 1, FullLen), 1, size)

\* the raw descriptor list of a source, as far as the source holds it
RawCount(src) ==
    IF Len(src) < HEADER_LEN THEN 0
    ELSE Min(U16BE(SubSeq(src, 25, 26)), (Len(src) - HEADER_LEN) \div SEGMENT_LEN)

Raw(src) ==
    [i \in 1..RawCount(src) |->
        SegmentFromBytes(Slice(src, HEADER_LEN + SEGMENT_LEN * (i - 1), SEGMENT_LEN))]

NoReader ==
    [kind |-> "none", present |-> FALSE, limit |-> 0, yielded |-> <<>>,
     dropped |-> "none"]

Init ==
    /\ \E magic \in Magics, version \in Versions, raw \in RawTables, size \in Sizes :
          /\ \/ magic = MAGIC /\ version = VERSION
             \/ /\ magic = MAGIC \/ version = VERSION
                /\ size = FullLen /\ Len(raw) = 1
          /\ source = Container(magic, version, raw, size)
    /\ engine = "streaming"
    /\ pc = "open"
    /\ pos = 0
    /\ header = EmptyTable
    /\ segments = <<>>
    /\ builder = NewBuilder
    /\ visited = <<>>
    /\ asked = <<>>
    /\ stream_out = Pending
    /\ seek_out = Pending
    /\ fork_reader = NoReader
    /\ requests = 0
    /\ flags_word = 0
    /\ flags = None
    /\ date_bytes = <<>>
    /\ dates = None
    /\ calls = <<>>
    /\ build_out = None
    /\ first_run = None

----------------------------------------------------------------------------
(* parse: the streaming engine *)

Visit(segment, before, r) ==
    [segment |-> segment, before |-> before, start |-> r.start,
     after |-> r.pos, ok |-> r.ok]

\* AppleSingleArchiveReader::streaming, segments_by_offset, builder.format
Streaming ==
    /\ engine = "streaming" /\ pc = "open"
    /\ LET h == read_header(source) IN
       /\ pos' = h.pos
       /\ IF h.ok
          THEN /\ header' = h.table
               /\ segments' = segments_by_offset(h.table)
               /\ builder' = format(NewBuilder, FORMAT_NAME)
               /\ pc' = "loop"
               /\ stream_out' = stream_out
          ELSE /\ stream_out' = Err(h.kind)
               /\ pc' = "done"
               /\ UNCHANGED <<header, segments, builder>>
    /\ UNCHANGED <<source, engine, visited, asked, seek_out, fork_reader,
                   requests, flags_word, flags,
                   side_vars>>

\* one iteration of the loop of parse
ParseSegment ==
    /\ engine = "streaming" /\ pc = "loop" /\ Len(visited) < Len(segments)
    /\ LET segment == segments[Len(visited) + 1]
           r == from_segment_wrap(segment, source, pos)
       IN  IF ~r.ok
           THEN /\ stream_out' = Err(r.kind)
                /\ pc' = "done"
                /\ pos' = r.pos
                /\ visited' = Append(visited, Visit(segment, pos, r))
                /\ UNCHANGED <<builder, asked>>
           ELSE LET m == r.member[1] IN
                IF IsFork(m.tag)
                THEN \E given \in BOOLEAN :
                       LET fork == limit(source, r.pos, m.value)
                           after == IF given THEN fork.pos ELSE r.pos
                       IN  /\ asked' = Append(asked,
                                [fork |-> ForkOf(m.tag, m.value),
                                 segment |-> segment,
                                 given |-> given,
                                 written |-> IF given THEN fork.bytes ELSE <<>>])
                           /\ pos' = after
                           /\ visited' = Append(visited,
                                [Visit(segment, pos, r) EXCEPT !.after = after])
                           /\ UNCHANGED <<builder, stream_out, pc>>
                ELSE /\ builder' = Fold(builder, m)
                     /\ pos' = r.pos
                     /\ visited' = Append(visited, Visit(segment, pos, r))
                     /\ UNCHANGED <<asked, stream_out, pc>>
    /\ UNCHANGED <<source, engine, header, segments, seek_out, fork_reader,
                   requests, flags_word, flags,
                   side_vars>>

\* Option::ok_or(io::ErrorKind::Other.into())
ok_or(built) == IF built = None THEN Err("Other") ELSE Ok(built[1])

\* builder.build().ok_or(..) after the loop of parse
ParseBuild ==
    /\ engine = "streaming" /\ pc = "loop" /\ Len(visited) = Len(segments)
    /\ stream_out' = ok_or(build(builder))
    /\ pc' = "done"
    /\ UNCHANGED <<source, engine, pos, header, segments, builder, visited,
                   asked, seek_out, fork_reader, requests, flags_word, flags,
                   side_vars>>

----------------------------------------------------------------------------
(* parse_seekable: the seekable engine, run on the same bytes *)

\* parse_seekable reads nothing but the source, so it is run once per source:
\* after the streaming run whose handler supplied a sink at every request
CapturedAll == \A i \in 1..Len(asked) : asked[i].given

\* AppleSingleArchiveReader::seekable, segments_by_offset,
\* SeekableArchive::builder, builder.format
Seekable ==
    /\ engine = "streaming" /\ pc = "done"
    /\ CapturedAll
    /\ engine' = "seekable"
    /\ visited' = <<>>
    /\ LET h == read_header(source) IN
       /\ pos' = h.pos
       /\ IF h.ok
          THEN /\ header' = h.table
               /\ segments' = segments_by_offset(h.table)
               /\ builder' = format(NewBuilder, FORMAT_NAME)
               /\ pc' = "loop"
               /\ seek_out' = seek_out
          ELSE /\ seek_out' = Err(h.kind)
               /\ pc' = "done"
               /\ header' = EmptyTable
               /\ segments' = <<>>
               /\ builder' = NewBuilder
    /\ UNCHANGED <<source, asked, stream_out, fork_reader, requests,
                   flags_word, flags,
                   side_vars>>

\* one iteration of the loop of parse_seekable
SeekSegment ==
    /\ engine = "seekable" /\ pc = "loop" /\ Len(visited) < Len(segments)
    /\ LET segment == segments[Len(visited) + 1]
           r == entry_wrap(segment, source)
       IN  /\ visited' = Append(visited, Visit(segment, pos, r))
           /\ pos' = r.pos
           /\ IF ~r.ok
              THEN /\ seek_out' = Err(r.kind)
                   /\ pc' = "done"
                   /\ UNCHANGED builder
              ELSE /\ builder' = Record(Fold(builder, r.member[1]), r.member[1])
                   /\ UNCHANGED <<seek_out, pc>>
    /\ UNCHANGED <<source, engine, header, segments, asked, stream_out,
                   fork_reader, requests, flags_word, flags,
                   side_vars>>

\* builder.build().ok_or(..) after the loop of parse_seekable
SeekBuild ==
    /\ engine = "seekable" /\ pc = "loop" /\ Len(visited) = Len(segments)
    /\ seek_out' = ok_or(seekable_build(builder))
    /\ pc' = "done"
    /\ UNCHANGED <<source, engine, pos, header, segments, builder, visited,
                   asked, stream_out, fork_reader, requests, flags_word, flags,
                   side_vars>>

----------------------------------------------------------------------------
(* SeekableArchive: fork readers after the pass *)

HasArchive == engine = "seekable" /\ pc = "done" /\ seek_out.status = "Ok"

\* how much of the outstanding fork reader has been consumed
Consumed ==
    IF ~fork_reader.present THEN "none"
    ELSE IF ReadToEnd(source, pos, fork_reader.limit).bytes = <<>> THEN "all"
    ELSE IF fork_reader.yielded = <<>> THEN "none"
    ELSE "part"

\* what data_fork() / rsrc_fork() do with the recorded Option<Entry>; the
\* reader of the request before is dropped (dropped: how much of it was read)
Request(kind, recorded) ==
    /\ HasArchive /\ requests < MaxRequests
    /\ requests' = requests + 1
    /\ IF recorded = None
       THEN /\ fork_reader' = [kind |-> kind, present |-> FALSE, limit |-> 0,
                               yielded |-> <<>>, dropped |-> Consumed]
            /\ pos' = pos
       ELSE /\ fork_reader' = [kind |-> kind, present |-> TRUE,
                               limit |-> fixate(recorded[1]).limit,
                               yielded |-> <<>>, dropped |-> Consumed]
            /\ pos' = fixate(recorded[1]).pos
    /\ UNCHANGED <<source, engine, pc, header, segments, builder, visited,
                   asked, stream_out, seek_out, flags_word, flags,
                   side_vars>>

\* SeekableArchive::data_fork
DataFork == Request("data", seek_out.archive[1].data_fork)

\* SeekableArchive::rsrc_fork
RsrcFork == Request("rsrc", seek_out.archive[1].rsrc_fork)

\* buffer sizes of the reads made on a fork reader
ReadSizes == {8, 16}

\* Read::read on the outstanding fork reader (an io::Take over the source)
ReadFork ==
    /\ HasArchive /\ fork_reader.present
    /\ \E n \in ReadSizes :
          LET got == ReadToEnd(source, pos, Min(n, fork_reader.limit)) IN
          /\ got.bytes # <<>>
          /\ pos' = got.pos
          /\ fork_reader' = [fork_reader EXCEPT
                                !.limit = @ - Len(got.bytes),
                                !.yielded = @ \o got.bytes]
    /\ UNCHANGED <<source, engine, pc, header, segments, builder, visited,
                   asked, stream_out, seek_out, requests, flags_word, flags,
                   side_vars>>

Next ==
    \/ Streaming
    \/ ParseSegment
    \/ ParseBuild
    \/ Seekable
    \/ SeekSegment
    \/ SeekBuild
    \/ DataFork
    \/ RsrcFork
    \/ ReadFork

Spec == Init /\ [][Next]_vars

----------------------------------------------------------------------------
(* FinderFlags on every 16-bit word *)

FlagWords == 0..65535

FlagsInit ==
    /\ flags_word \in FlagWords
    /\ flags = None
    /\ source = <<>>
    /\ engine = "flags"
    /\ pc = "open"
    /\ pos = 0
    /\ header = EmptyTable
    /\ segments = <<>>
    /\ builder = NewBuilder
    /\ visited = <<>>
    /\ asked = <<>>
    /\ stream_out = Pending
    /\ seek_out = Pending
    /\ fork_reader = NoReader
    /\ requests = 0
    /\ date_bytes = <<>>
    /\ dates = None
    /\ calls = <<>>
    /\ build_out = None
    /\ first_run = None

\* FinderFlags::from(u16) and every accessor
DecodeFlags ==
    /\ engine = "flags" /\ flags = None
    /\ flags' = Some(FinderFlagsOf(flags_word))
    /\ UNCHANGED <<parse_vars, flags_word, side_vars>>

FlagsNext == DecodeFlags

FlagsSpec == FlagsInit /\ [][FlagsNext]_vars

----------------------------------------------------------------------------
(* Dates on file-dates blocks *)

\* four-byte timestamps around 0, the two epochs, the ends of i32 and the
\* timestamps whose Unix time is next to 2^31
Timestamps ==
    {<<a, b, c, d>> : a \in {0, 56, 71, 127, 128, 199, 255}, b \in {0, 109, 146, 255},
                      c \in {0, 67, 188, 255}, d \in {0, 127, 128, 255}}

\* a block with timestamp t at field k (1 create .. 4 access) and the small
\* timestamp j at every other field j
Block(t, k) ==
    LET field(j) == IF j = k THEN t ELSE <<0, 0, 0, j>> IN
    field(1) \o field(2) \o field(3) \o field(4)

DatesInit ==
    /\ \E t \in Timestamps, k \in 1..4 : date_bytes = Block(t, k)
    /\ dates = None
    /\ source = <<>>
    /\ engine = "dates"
    /\ pc = "open"
    /\ pos = 0
    /\ header = EmptyTable
    /\ segments = <<>>
    /\ builder = NewBuilder
    /\ visited = <<>>
    /\ asked = <<>>
    /\ stream_out = Pending
    /\ seek_out = Pending
    /\ fork_reader = NoReader
    /\ requests = 0
    /\ flags_word = 0
    /\ flags = None
    /\ calls = <<>>
    /\ build_out = None
    /\ first_run = None

\* Dates::from(&[u8; 16]) and Date::as_unix_timestamp of each field
DecodeDates ==
    /\ engine = "dates" /\ dates = None
    /\ LET d == DatesFrom(date_bytes) IN
       dates' = Some([create |-> d.create, modify |-> d.modify,
                      backup |-> d.backup, access |-> d.access,
                      unix |-> [create |-> as_unix_timestamp(d.create),
                                modify |-> as_unix_timestamp(d.modify),
                                backup |-> as_unix_timestamp(d.backup),
                                access |-> as_unix_timestamp(d.access)]])
    /\ UNCHANGED <<parse_vars, flags_word, flags, date_bytes, calls, build_out,
                   first_run>>

DatesNext == DecodeDates

DatesSpec == DatesInit /\ [][DatesNext]_vars

----------------------------------------------------------------------------
(* parse run twice on the same bytes, the handler choosing anew *)

\* parse has returned; its outcome is kept and parse is called again on the
\* same source, with a new reader and a new builder
Again ==
    /\ engine = "streaming" /\ pc = "done" /\ first_run = None
    /\ first_run' = Some([out |-> stream_out,
                          sinks |-> Cardinality({k \in 1..Len(asked) : asked[k].given}),
                          asks |-> Len(asked)])
    /\ pc' = "open"
    /\ pos' = 0
    /\ header' = EmptyTable
    /\ segments' = <<>>
    /\ builder' = NewBuilder
    /\ visited' = <<>>
    /\ asked' = <<>>
    /\ stream_out' = Pending
    /\ UNCHANGED <<source, engine, seek_out, fork_reader, requests, flags_word,
                   flags, date_bytes, dates, calls, build_out>>

PairNext == Streaming \/ ParseSegment \/ ParseBuild \/ Again

PairSpec == Init /\ [][PairNext]_vars

----------------------------------------------------------------------------
(* ArchiveBuilder under any sequence of setter calls *)

Setters == {"format", "finf", "minf", "date", "name", "comment"}

\* two values for every field, so that a later call can differ from an earlier
SetterValues(setter) ==
    IF setter = "format" THEN {FORMAT_NAME, "AppleDouble"} ELSE {"x", "y"}

BuilderInit ==
    /\ builder = NewBuilder
    /\ calls = <<>>
    /\ build_out = None
    /\ source = <<>>
    /\ engine = "builder"
    /\ pc = "open"
    /\ pos = 0
    /\ header = EmptyTable
    /\ segments = <<>>
    /\ visited = <<>>
    /\ asked = <<>>
    /\ stream_out = Pending
    /\ seek_out = Pending
    /\ fork_reader = NoReader
    /\ requests = 0
    /\ flags_word = 0
    /\ flags = None
    /\ date_bytes = <<>>
    /\ dates = None
    /\ first_run = None

builder_frame ==
    <<source, engine, pc, pos, header, segments, visited, asked, stream_out,
      seek_out, fork_reader, requests, flags_word, flags, date_bytes, dates,
      first_run>>

\* one call of a setter of the builder
Call(setter, set(_, _)) ==
    /\ engine = "builder" /\ Len(calls) < MaxCalls
    /\ \E v \in SetterValues(setter) :
          /\ builder' = set(builder, v)
          /\ calls' = Append(calls, [setter |-> setter, value |-> v])
    /\ UNCHANGED <<build_out, builder_frame>>

SetFormat == Call("format", format)
SetFinf == Call("finf", finf)
SetMinf == Call("minf", minf)
SetDate == Call("date", date)
SetName == Call("name", name)
SetComment == Call("comment", comment)

\* ArchiveBuilder::build(&self) and SeekableArchiveBuilder::build of a
\* builder with these fields, after the calls made so far
Build ==
    /\ engine = "builder"
    /\ build_out' = Some([at |-> Len(calls), result |-> build(builder),
                          seekable |-> seekable_build(builder)])
    /\ UNCHANGED <<builder, calls, builder_frame>>

BuilderNext ==
    \/ SetFormat \/ SetFinf \/ SetMinf \/ SetDate \/ SetName \/ SetComment
    \/ Build

BuilderSpec == BuilderInit /\ [][BuilderNext]_vars

----------------------------------------------------------------------------
(* What a source says, read off its bytes *)

Declared(src) == U16BE(SubSeq(src, 25, 26))

\* the preamble matches and every declared descriptor is there
HeaderIntact(src) ==
    /\ Len(src) >= HEADER_LEN
    /\ SubSeq(src, 1, 4) = MAGIC
    /\ SubSeq(src, 5, 8) = VERSION
    /\ Len(src) >= HEADER_LEN + SEGMENT_LEN * Declared(src)

\* the indexes of the raw descriptors no later descriptor shares the id of
LastIndexes(raw) ==
    {i \in 1..Len(raw) : \A j \in (i + 1)..Len(raw) : raw[j].id # raw[i].id}

\* the segments listed by the table of a source
Listed(src) == {Raw(src)[i] : i \in LastIndexes(Raw(src))}

End(s) == s.offset + s.len

WellFormed(src) ==
    /\ HeaderIntact(src)
    /\ LastIndexes(Raw(src)) = 1..Len(Raw(src))
    /\ \A s \in Listed(src) :
          /\ s.offset >= HEADER_LEN + SEGMENT_LEN * Declared(src)
          /\ End(s) <= Len(src)
    /\ \A s, t \in Listed(src) :
          s # t => End(s) <= t.offset \/ End(t) <= s.offset

Truncated(src) ==
    \/ Len(src) < HEADER_LEN
    \/ Len(src) < HEADER_LEN + SEGMENT_LEN * Declared(src)
    \/ \E s \in Listed(src) : End(s) > Len(src)

Running == engine \in {"streaming", "seekable"}

\* during a run of parse or parse_seekable or right after it; the fork readers
\* requested later change nothing but the read position and themselves
InPass == Running /\ requests = 0

Last(seq) == seq[Len(seq)]

----------------------------------------------------------------------------
(* C1 *)

\* C1: on a well-formed container each engine visits every listed segment
\* exactly once, and while processing a segment it consumes exactly the
\* segment's declared length, whatever the entry type.
C1_ExactlyOnceExactLength ==
    (Running /\ WellFormed(source)) =>
        /\ \A i \in 1..Len(visited) :
              visited[i].after - visited[i].start = visited[i].segment.len
        /\ pc = "done" =>
              \A s \in Listed(source) :
                 Cardinality({i \in 1..Len(visited) : visited[i].segment = s}) = 1

----------------------------------------------------------------------------
(* C2 *)

\* C2 as stated: consecutively visited segments have strictly ascending offsets.
C2_StrictlyAscending ==
    Running =>
        \A i \in 1..(Len(visited) - 1) :
           visited[i].segment.offset < visited[i + 1].segment.offset

\* C2 amended: consecutively visited segments have ascending offsets, equal
\* only for two descriptors with different ids, which are visited in ascending
\* id order.
C2_Ascending ==
    InPass =>
        \A i \in 1..(Len(visited) - 1) :
           \/ visited[i].segment.offset < visited[i + 1].segment.offset
           \/ /\ visited[i].segment.offset = visited[i + 1].segment.offset
              /\ visited[i].segment.id < visited[i + 1].segment.id

\* two segments visited in the order opposite to their order in the header
C2_Witness ==
    /\ Running /\ Len(visited) = 2 /\ Len(Raw(source)) = 2
    /\ visited[1].segment = Raw(source)[2]
    /\ visited[2].segment = Raw(source)[1]
    /\ visited[1].segment.offset < visited[2].segment.offset
    /\ visited[1].segment.id > visited[2].segment.id

----------------------------------------------------------------------------
(* C3 *)

\* C3: a source that ends before the end of the header or before the end of a
\* listed segment makes parse and parse_seekable return an error.
C3_TruncatedFails ==
    (Running /\ Truncated(source)) =>
        stream_out.status # "Ok" /\ seek_out.status # "Ok"

----------------------------------------------------------------------------
(* C4 *)

\* C4: when the streaming traversal reaches a segment that starts behind the
\* cursor, parse ends there with the Unsupported error (a short read reports
\* UnexpectedEof), no byte is consumed for the segment, the handler is not
\* asked about it, and no archive is returned.
C4_OutOfOrderFails ==
    engine = "streaming" =>
        \A i \in 1..Len(visited) :
           /\ visited[i].before > visited[i].segment.offset =>
                 /\ i = Len(visited)
                 /\ pc = "done"
                 /\ stream_out = Err("Unsupported")
                 /\ ~visited[i].ok
                 /\ visited[i].after = visited[i].before
                 /\ pos = visited[i].before
                 /\ \A k \in 1..Len(asked) : asked[k].segment # visited[i].segment
           /\ (~visited[i].ok /\ visited[i].before <= visited[i].segment.offset) =>
                 stream_out = Err("UnexpectedEof")

\* the second segment starts inside bytes consumed for the first
C4_Witness ==
    /\ engine = "streaming" /\ pc = "done" /\ Len(visited) = 2
    /\ visited[1].ok
    /\ visited[1].after > visited[2].segment.offset
    /\ visited[2].segment.offset >= HEADER_LEN + SEGMENT_LEN * Declared(source)
    /\ stream_out.kind = "Unsupported"

----------------------------------------------------------------------------
(* C5 *)

\* what the sink of a fork kind captured during parse: None when the handler
\* was never asked for it
Captured(kind) ==
    LET asks == {k \in 1..Len(asked) : asked[k].fork.kind = kind} IN
    IF asks = {} THEN None ELSE Some(asked[CHOOSE k \in asks : TRUE].written)

\* the fork reader has nothing more to yield
Exhausted ==
    fork_reader.present /\ ReadToEnd(source, pos, fork_reader.limit).bytes = <<>>

ForkKind == IF fork_reader.kind = "data" THEN "Data" ELSE "Rsrc"

\* the streaming and the seekable results carry the same metadata, and a fork
\* reader read to its end has yielded what the sink of that fork captured
SameContent ==
    /\ Metadata(stream_out.archive[1]) = Metadata(seek_out.archive[1])
    /\ (fork_reader.kind # "none" /\ ~fork_reader.present) =>
          Captured(ForkKind) = None
    /\ Exhausted => Captured(ForkKind) = Some(fork_reader.yielded)

BothReturned == engine = "seekable" /\ pc = "done"

\* C5 as stated: on the same bytes parse (sinks capturing every fork) and
\* parse_seekable both succeed or both fail, and on success they agree on the
\* metadata and on the bytes of the forks.
C5_EnginesAgree ==
    BothReturned =>
        /\ (stream_out.status = "Ok") <=> (seek_out.status = "Ok")
        /\ (stream_out.status = "Ok" /\ seek_out.status = "Ok") => SameContent

\* C5 amended: when parse succeeds, parse_seekable succeeds with the same
\* metadata and fork bytes; when parse_seekable fails, parse fails; parse alone
\* fails only with the Unsupported (out-of-order) error.
C5_EnginesAgreeUnlessOutOfOrder ==
    BothReturned =>
        /\ stream_out.status = "Ok" => seek_out.status = "Ok"
        /\ (stream_out.status = "Err" /\ seek_out.status = "Ok") =>
              stream_out.kind = "Unsupported"
        /\ (stream_out.status = "Ok" /\ seek_out.status = "Ok") => SameContent

\* both engines decoded a name, and the data fork reader was read to the end
C5_Witness ==
    /\ BothReturned
    /\ stream_out.status = "Ok" /\ seek_out.status = "Ok"
    /\ stream_out.archive[1].name # None
    /\ fork_reader.kind = "data" /\ Exhausted
    /\ Len(fork_reader.yielded) = 16

----------------------------------------------------------------------------
(* C6 *)

HeaderRead == InPass /\ pc # "open" /\ HeaderIntact(source)

\* C6: the table holds one descriptor per distinct id of the raw list, the
\* last one with that id; only those are traversed, and the name and comment
\* decoded are the bytes of the last descriptor's range.
C6_LastDescriptorWins ==
    HeaderRead =>
        LET raw == Raw(source)
            listed == {raw[i] : i \in LastIndexes(raw)}
            content(id) ==
                LET s == CHOOSE s \in listed : s.id = id IN
                Some(Slice(source, s.offset, Min(s.len, Remaining(source, s.offset))))
        IN  /\ DOMAIN header = {raw[i].id : i \in 1..Len(raw)}
            /\ \A i \in LastIndexes(raw) : header[raw[i].id] = raw[i]
            /\ Len(segments) = Cardinality(DOMAIN header)
            /\ {segments[k] : k \in 1..Len(segments)} = listed
            /\ \A i \in 1..Len(visited) :
                  /\ visited[i].segment \in listed
                  /\ (visited[i].ok /\ visited[i].segment.id = 3) =>
                        builder.name = content(3)
                  /\ (visited[i].ok /\ visited[i].segment.id = 4) =>
                        builder.comment = content(4)

\* two raw descriptors share the real-name id and differ; the name was decoded
C6_Witness ==
    /\ HeaderRead /\ pc = "done"
    /\ Len(Raw(source)) = 2
    /\ Raw(source)[1].id = 3 /\ Raw(source)[2].id = 3
    /\ Raw(source)[1].offset # Raw(source)[2].offset
    /\ Len(visited) = 1 /\ visited[1].ok
    /\ builder.name # None /\ builder.name # Some(<<>>)

----------------------------------------------------------------------------
(* C7 *)

BadPreamble(src) ==
    Len(src) >= 8 /\ (SubSeq(src, 1, 4) # MAGIC \/ SubSeq(src, 5, 8) # VERSION)

Returned == IF engine = "streaming" THEN stream_out ELSE seek_out

\* C7: a wrong magic or version makes parse and parse_seekable fail with the
\* format error before any segment is dispatched or any sink requested; with
\* both right and 26 + 12n bytes there, the header is read with n descriptors.
C7_FormatChecked ==
    InPass =>
        /\ (BadPreamble(source) /\ pc # "open") =>
              /\ Returned.status = "Err"
              /\ Len(source) >= HEADER_LEN => Returned.kind = "InvalidData"
              /\ stream_out.status = "Err"
              /\ visited = <<>> /\ asked = <<>>
              /\ header = EmptyTable /\ segments = <<>>
        /\ (HeaderIntact(source) /\ pc = "loop" /\ visited = <<>>) =>
              pos = HEADER_LEN + SEGMENT_LEN * Declared(source)
        /\ (HeaderIntact(source) /\ pc = "done" /\ Returned.status = "Err") =>
              visited # <<>>

\* a source with the right magic and a wrong version, refused by both engines
C7_Witness ==
    /\ BothReturned
    /\ SubSeq(source, 1, 4) = MAGIC /\ SubSeq(source, 5, 8) # VERSION
    /\ Declared(source) = 1
    /\ stream_out = Err("InvalidData") /\ seek_out = Err("InvalidData")

----------------------------------------------------------------------------
(* C8 *)

\* C8: every data_fork() / rsrc_fork() request on the SeekableArchive, after
\* any earlier requests and partial reads, yields none for a fork the table
\* does not list, and otherwise a reader that starts at the fork's recorded
\* offset and yields at most its recorded length, so that read to its end it
\* yields the bytes of the fork's range.
C8_ForkReaders ==
    (HasArchive /\ fork_reader.kind # "none") =>
        LET id == IF fork_reader.kind = "data" THEN 1 ELSE 2
            recorded == IF fork_reader.kind = "data"
                        THEN seek_out.archive[1].data_fork
                        ELSE seek_out.archive[1].rsrc_fork
        IN  /\ fork_reader.present <=> id \in DOMAIN header
            /\ fork_reader.present =>
                  /\ recorded = Some(header[id])
                  /\ pos = header[id].offset + Len(fork_reader.yielded)
                  /\ Len(fork_reader.yielded) + fork_reader.limit = header[id].len
                  /\ fork_reader.yielded =
                        Slice(source, header[id].offset, Len(fork_reader.yielded))
                  /\ Exhausted =>
                        Len(fork_reader.yielded) =
                           Min(header[id].len, Remaining(source, header[id].offset))

\* a second request, made after part of the first reader was read, whose
\* reader was read to the end of a 16-byte data fork
C8_Witness ==
    /\ HasArchive /\ requests = 2
    /\ fork_reader.kind = "data" /\ fork_reader.dropped = "part"
    /\ Exhausted /\ Len(fork_reader.yielded) = 16

----------------------------------------------------------------------------
(* C9 *)

\* the Fork a segment id stands for
KindFor(id) ==
    IF id = 1 THEN [kind |-> "Data", id |-> 0]
    ELSE IF id = 2 THEN [kind |-> "Rsrc", id |-> 0]
    ELSE [kind |-> "Other", id |-> id]

MetadataIds == {3, 4, 8, 9, 10}

\* C9: in streaming parse the handler is asked once, with the matching kind,
\* for each fork or unrecognized segment processed and never for a metadata
\* segment; a sink it returns receives exactly the bytes at
\* [offset, offset + length) of the segment, all of them, within the segment's
\* own iteration.
C9_SinkGetsWholeFork ==
    engine = "streaming" =>
        /\ \A k \in 1..Len(asked) :
              /\ asked[k].segment.id \notin MetadataIds
              /\ asked[k].fork = KindFor(asked[k].segment.id)
              /\ asked[k].given =>
                    /\ Len(asked[k].written) = asked[k].segment.len
                    /\ asked[k].written =
                          Slice(source, asked[k].segment.offset,
                                asked[k].segment.len)
        /\ \A i \in 1..Len(visited) :
              LET asks == {k \in 1..Len(asked) :
                              asked[k].segment = visited[i].segment}
              IN  IF visited[i].ok /\ visited[i].segment.id \notin MetadataIds
                  THEN /\ Cardinality(asks) = 1
                       /\ \A k \in asks :
                             asked[k].given => visited[i].after = End(visited[i].segment)
                  ELSE asks = {}

----------------------------------------------------------------------------
(* C10 *)

NoBooleanFlag(f) ==
    /\ ~f.is_on_desktop /\ ~f.color_reserved /\ ~f.requires_switch_launch
    /\ ~f.is_shared /\ ~f.has_no_inits /\ ~f.has_been_inited
    /\ ~f.has_custom_icon /\ ~f.is_stationery /\ ~f.name_locked
    /\ ~f.has_bundle /\ ~f.is_invisible /\ ~f.is_alias

AliasOnly(f) ==
    f.is_alias /\ f.color = 0 /\ NoBooleanFlag([f EXCEPT !.is_alias = FALSE])

----------------------------------------------------------------------------
(* C11 *)

\* the i64 x is the integer n, for n in the range of i32
Is32(x, n) ==
    /\ x[1] = n % 65536 /\ x[2] = (n \div 65536) % 65536
    /\ x[3] = (IF n < 0 THEN 65535 ELSE 0) /\ x[4] = x[3]

\* the i64 x is 2^31 + n, for 0 <= n < 2^31
IsAbove31(x, n) ==
    /\ x[4] = 0 /\ x[3] = 0 /\ x[2] >= 32768
    /\ (x[2] - 32768) * 65536 + x[1] = n

\* the largest Mac timestamp whose Unix time is below 2^31
Last31 == 2147483647 - MAC_EPOCH

\* the i64 x is v + 946684800
IsUnixOf(x, v) ==
    IF v <= Last31 THEN Is32(x, v + MAC_EPOCH) ELSE IsAbove31(x, v - Last31 - 1)

\* C11: the Unix time of every Mac timestamp v is v + 946684800, computed
\* without overflow (0 gives 946684800, -946684800 gives 0), and the block's
\* four timestamps are the big-endian signed integers of bytes 0-3, 4-7, 8-11,
\* 12-15 in the order create, modify, backup, access.
C11_UnixTime ==
    (engine = "dates" /\ dates # None) =>
        LET d == dates[1]
            b == date_bytes
            byte(k, j) == b[4 * (k - 1) + j]
            word(k) == <<byte(k, 3) * 256 + byte(k, 4), byte(k, 1) * 256 + byte(k, 2)>>
            of(k) == CASE k = 1 -> d.create [] k = 2 -> d.modify
                       [] k = 3 -> d.backup [] OTHER -> d.access
            unix(k) == CASE k = 1 -> d.unix.create [] k = 2 -> d.unix.modify
                         [] k = 3 -> d.unix.backup [] OTHER -> d.unix.access
        IN  \A k \in 1..4 :
              /\ of(k) >= -2147483647 - 1 /\ of(k) <= 2147483647
              /\ of(k) % 65536 = word(k)[1]
              /\ (of(k) \div 65536) % 65536 = word(k)[2]
              /\ ~unix(k).overflow
              /\ IsUnixOf(unix(k).value, of(k))
              /\ of(k) = 0 => unix(k).value = <<17280, 14445, 0, 0>>
              /\ of(k) = -946684800 => unix(k).value = <<0, 0, 0, 0>>

\* the largest timestamp was decoded at the backup field: its Unix time is
\* above 2^31, and the other fields hold their own timestamps
C11_Witness ==
    /\ engine = "dates" /\ dates # None
    /\ SubSeq(date_bytes, 9, 12) = <<127, 255, 255, 255>>
    /\ dates[1].backup = 2147483647
    /\ dates[1].unix.backup.value[2] >= 32768
    /\ dates[1].create = 1 /\ dates[1].modify = 2 /\ dates[1].access = 4

----------------------------------------------------------------------------
(* C12 *)

\* C12: a skip_to(offset) called with the cursor at or before offset leaves
\* the cursor exactly at offset, having discarded offset - cursor bytes, on
\* every source, also one that ends before offset.
C12_SkipReachesOffset ==
    engine = "streaming" =>
        \A i \in 1..Len(visited) :
           visited[i].before <= visited[i].segment.offset =>
              visited[i].start = visited[i].segment.offset

----------------------------------------------------------------------------
(* C13 *)

\* C13: when the handler returns no sink for a data-fork, resource-fork or
\* unrecognized-id segment, parse reads and discards the payload, so that the
\* cursor after the segment is segment.offset + segment.length.
C13_NoSinkDrains ==
    engine = "streaming" =>
        \A k \in 1..Len(asked) : \A i \in 1..Len(visited) :
           (~asked[k].given /\ visited[i].segment = asked[k].segment) =>
              visited[i].after = End(visited[i].segment)

----------------------------------------------------------------------------
(* C14 *)

\* C14: in both engines, the bytes consumed while a segment s is processed lie
\* before s.offset + s.length, for every entry type and declared length, even
\* when the source holds more; the streaming cursor after a processed segment
\* is at most s.offset + s.length. (The skip before a segment stops at its
\* offset; the bytes read for s are those from `start` to `after`.)
C14_NothingPastSegment ==
    Running =>
        /\ InPass => \A i \in 1..Len(visited) :
              LET v == visited[i] IN
              /\ v.start <= v.after
              /\ v.after > v.start => v.after <= End(v.segment)
              /\ engine = "streaming" =>
                    /\ v.before <= v.start
                    /\ v.start > v.before => v.start <= v.segment.offset
                    /\ v.ok => v.after <= End(v.segment)
              /\ engine = "seekable" => v.start = v.segment.offset
        /\ (HasArchive /\ fork_reader.present) =>
              LET id == IF fork_reader.kind = "data" THEN 1 ELSE 2 IN
              pos <= End(header[id])

\* a four-byte Finder-info segment in a source with sixteen more bytes: the
\* decoder wanted sixteen bytes and was given the segment's four
C14_Witness ==
    /\ Running /\ Len(visited) >= 1
    /\ Last(visited).segment.id = 9 /\ Last(visited).segment.len = 4
    /\ Last(visited).start = Last(visited).segment.offset
    /\ Last(visited).after = End(Last(visited).segment)
    /\ ~Last(visited).ok
    /\ Len(source) >= End(Last(visited).segment) + FINDER_INFO_LEN

----------------------------------------------------------------------------
(* C15 *)

\* the byte ranges a SeekableArchive holds
Recorded(a) ==
    {a.data_fork[j] : j \in 1..Len(a.data_fork)}
        \cup {a.rsrc_fork[j] : j \in 1..Len(a.rsrc_fork)}

\* C15: parse_seekable records on the SeekableArchive the byte range of every
\* data-fork, resource-fork and unrecognized-id segment of the table, and
\* copies none of their payload during the pass.
C15_ForkRangesRecorded ==
    (engine = "seekable" /\ pc = "done" /\ seek_out.status = "Ok") =>
        \A k \in 1..Len(segments) :
           (segments[k].id \in {1, 2} \/ EntryType(segments[k].id) = None) =>
              /\ segments[k] \in Recorded(seek_out.archive[1])
              /\ visited[k].segment = segments[k]
              /\ visited[k].after = visited[k].start

----------------------------------------------------------------------------
(* C16 *)

\* the value of the last of the first n calls made to a setter, if any
LastCall(setter, n) ==
    LET made == {i \in 1..n : calls[i].setter = setter} IN
    IF made = {} THEN None
    ELSE Some(calls[CHOOSE i \in made : \A j \in made : j <= i].value)

\* the fields of a builder or of an archive are those of the first n calls
FieldsAfter(r, n) ==
    /\ r.finf = LastCall("finf", n) /\ r.minf = LastCall("minf", n)
    /\ r.date = LastCall("date", n) /\ r.name = LastCall("name", n)
    /\ r.comment = LastCall("comment", n)

\* C16: after any sequence of setter calls, build() yields nothing exactly
\* when format was never called; otherwise the archive holds for each field the
\* value of the most recent call of its setter, and absent for an optional
\* field never set; a setter changes its own field only, and build() leaves
\* the builder as it was.
C16_BuilderFields ==
    engine = "builder" =>
        /\ builder.format = LastCall("format", Len(calls))
        /\ FieldsAfter(builder, Len(calls))
        /\ builder.rsrc_fork = None /\ builder.data_fork = None
        /\ build_out # None =>
              LET r == build_out[1] IN
              /\ r.result = None <=> LastCall("format", r.at) = None
              /\ r.seekable = None <=> r.result = None
              /\ r.result # None =>
                    /\ Some(r.result[1].format) = LastCall("format", r.at)
                    /\ FieldsAfter(r.result[1], r.at)
                    /\ Metadata(r.seekable[1]) = r.result[1]

\* name, format, name again with another value, then build: the archive has
\* the second name and no comment
C16_Witness ==
    /\ engine = "builder" /\ build_out # None /\ build_out[1].at = 3
    /\ Len(calls) = 3
    /\ calls[1].setter = "name" /\ calls[2].setter = "format"
    /\ calls[3].setter = "name" /\ calls[3].value # calls[1].value
    /\ build_out[1].result # None
    /\ build_out[1].result[1].name = Some(calls[3].value)
    /\ build_out[1].result[1].comment = None

----------------------------------------------------------------------------
(* C17 *)

\* C17: in every run of parse and parse_seekable the format tag is set once,
\* to "AppleSingle", after the header is read and before the first segment is
\* dispatched; build() never fails for a missing format, and every returned
\* archive has the format "AppleSingle".
C17_FormatAlwaysSet ==
    InPass =>
        /\ pc = "open" => builder.format = None
        /\ pc = "loop" => builder.format = Some("AppleSingle")
        /\ pc = "done" =>
              builder.format = IF HeaderIntact(source) THEN Some("AppleSingle")
                               ELSE None
        /\ stream_out.kind # "Other" /\ seek_out.kind # "Other"
        /\ stream_out.status = "Ok" => stream_out.archive[1].format = "AppleSingle"
        /\ seek_out.status = "Ok" => seek_out.archive[1].format = "AppleSingle"
        /\ (pc = "done" /\ Returned.status = "Err") =>
              \/ ~HeaderIntact(source)
              \/ visited # <<>> /\ ~Last(visited).ok

\* both engines went through two segments and returned an archive
C17_Witness ==
    /\ BothReturned /\ Len(visited) = 2
    /\ stream_out.status = "Ok" /\ seek_out.status = "Ok"
    /\ stream_out.archive[1].format = "AppleSingle"
    /\ seek_out.archive[1].format = "AppleSingle"
    /\ seek_out.archive[1].name # None

----------------------------------------------------------------------------
(* C18 *)

\* C18: two runs of parse on the same bytes that differ only in the fork
\* segments the handler supplies a sink for both succeed or both fail with the
\* same error, and on success return the same metadata.
C18_HandlerIndependent ==
    (engine = "streaming" /\ pc = "done" /\ first_run # None) =>
        /\ stream_out.status = first_run[1].out.status
        /\ stream_out.kind = first_run[1].out.kind
        /\ stream_out.archive = first_run[1].out.archive

====
